---------------------------- MODULE Spec2Model ----------------------------
(***************************************************************************)
(* A model of the libvirtio guest drivers: the virtio-blk driver           *)
(* (virtioblk_init, virtioblk_shutdown, fill_blk_hdr, virtioblk_transfer)  *)
(* and the virtio-net driver (virtionet_open/init, virtionet_close/term,   *)
(* virtionet_xmit, virtionet_receive, virtionet_receive_check), both in    *)
(* src/virtio-blk.c, against a device (the hypervisor side of the rings).  *)
(*                                                                         *)
(* The transport and virtqueue primitives the drivers call                 *)
(* (virtio_set_status, virtio_reset_device, virtio_negotiate_guest_        *)
(* features, virtio_queue_init_vq, virtio_fill_desc, virtio_free_desc,     *)
(* virtio_queue_notify, virtio_get_config) live in virtio.c, which is not  *)
(* among the source files; they are modelled from sections 4.2 - 4.4 of    *)
(* the specification and are marked so in the model map.                   *)
(*                                                                         *)
(* Three specifications share the variables:                               *)
(*   SpecBlk  the block driver, one handler per action;                    *)
(*   SpecNet  the network driver with a loopback device;                   *)
(*   SpecMO   the submission paths as sequences of stores, barriers and    *)
(*            notifications over a store buffer (memory ordering).         *)
(***************************************************************************)
EXTENDS Integers, Sequences, FiniteSets, TLC

(***************************************************************************)
(* Unsigned 64-bit values.  TLC's integers are 32-bit, so a uint64_t is a  *)
(* tuple of four 16-bit limbs, least significant first, and the C          *)
(* arithmetic on it is done limb by limb, modulo 2^64.                     *)
(***************************************************************************)
Limb == 2^16

U64(n) == <<n % Limb, (n \div Limb) % Limb, 0, 0>>

U64Make(l0, l1, l2, l3) == <<l0, l1, l2, l3>>

U64Max == <<Limb - 1, Limb - 1, Limb - 1, Limb - 1>>

\* a + b modulo 2^64
U64Add(a, b) ==
    LET s0 == a[1] + b[1]
        s1 == a[2] + b[2] + (s0 \div Limb)
        s2 == a[3] + b[3] + (s1 \div Limb)
        s3 == a[4] + b[4] + (s2 \div Limb)
    IN  <<s0 % Limb, s1 % Limb, s2 % Limb, s3 % Limb>>

\* the two's complement of a: 2^64 - a modulo 2^64
U64Neg(a) ==
    U64Add(<<Limb - 1 - a[1], Limb - 1 - a[2], Limb - 1 - a[3], Limb - 1 - a[4]>>,
           <<1, 0, 0, 0>>)

\* a - b modulo 2^64
U64Sub(a, b) == U64Add(a, U64Neg(b))

\* a > b, unsigned
U64Gt(a, b) ==
    \/ a[4] > b[4]
    \/ a[4] = b[4] /\ a[3] > b[3]
    \/ a[4] = b[4] /\ a[3] = b[3] /\ a[2] > b[2]
    \/ a[4] = b[4] /\ a[3] = b[3] /\ a[2] = b[2] /\ a[1] > b[1]

\* a * k modulo 2^64, for 0 <= k < 2^15 (the block sizes of the model)
U64MulSmall(a, k) ==
    LET p0 == a[1] * k
        p1 == a[2] * k + (p0 \div Limb)
        p2 == a[3] * k + (p1 \div Limb)
        p3 == a[4] * k + (p2 \div Limb)
    IN  <<p0 % Limb, p1 % Limb, p2 % Limb, p3 % Limb>>

\* a / k (unsigned, truncating), for 0 < k < 2^15
U64DivSmall(a, k) ==
    LET q3 == a[4] \div k
        r3 == a[4] % k
        q2 == (r3 * Limb + a[3]) \div k
        r2 == (r3 * Limb + a[3]) % k
        q1 == (r2 * Limb + a[2]) \div k
        r1 == (r2 * Limb + a[2]) % k
        q0 == (r1 * Limb + a[1]) \div k
    IN  <<q0, q1, q2, q3>>

\* the conversion of a 64-bit value to uint32_t: its low 32 bits
U64ToU32(a) == <<a[1], a[2], 0, 0>>

\* byte swap of one 16-bit limb, and of 32- and 64-bit values
Swap16(l) == (l % 256) * 256 + (l \div 256)

Bswap32(a) == <<Swap16(a[2]), Swap16(a[1]), a[3], a[4]>>

Bswap64(a) == <<Swap16(a[4]), Swap16(a[3]), Swap16(a[2]), Swap16(a[1])>>

(***************************************************************************)
(* Bit fields.  Status values and descriptor flags are small integers; the *)
(* C operators | and & on them are computed bit by bit.                    *)
(***************************************************************************)
RECURSIVE BitOr(_, _)
BitOr(a, b) ==
    IF a = 0 THEN b
    ELSE IF b = 0 THEN a
    ELSE (IF a % 2 = 1 \/ b % 2 = 1 THEN 1 ELSE 0) + 2 * BitOr(a \div 2, b \div 2)

RECURSIVE BitAnd(_, _)
BitAnd(a, b) ==
    IF a = 0 \/ b = 0 THEN 0
    ELSE (IF a % 2 = 1 /\ b % 2 = 1 THEN 1 ELSE 0) + 2 * BitAnd(a \div 2, b \div 2)

\* every bit of m is set in v
HasBits(v, m) == BitAnd(v, m) = m

(***************************************************************************)
(* Constants of virtio.h (device status bits, descriptor flags, feature    *)
(* bit numbers), with the values sections 3 and 4.4 of the specification   *)
(* give.  A feature set is modelled as the set of its bit numbers.         *)
(***************************************************************************)
VIRTIO_STAT_ACKNOWLEDGE == 1
VIRTIO_STAT_DRIVER == 2
VIRTIO_STAT_DRIVER_OK == 4
VIRTIO_STAT_FEATURES_OK == 8
VIRTIO_STAT_FAILED == 128

VRING_DESC_F_NEXT == 1
VRING_DESC_F_WRITE == 2
VRING_AVAIL_F_NO_INTERRUPT == 1

VIRTIO_F_VERSION_1 == 32
VIRTIO_BLK_F_BLK_SIZE == 6
VIRTIO_NET_F_MAC == 5

VIRTIO_BLK_T_IN == 0
VIRTIO_BLK_T_OUT == 1
VIRTIO_BLK_T_FLUSH == 4

DEFAULT_SECTOR_SIZE == 512

\* virtio-blk.c line 24: the features the block driver offers to a modern device
DRIVER_FEATURE_SUPPORT_BLK == {VIRTIO_F_VERSION_1}

\* virtio-net part, line 272
DRIVER_FEATURE_SUPPORT_NET == {VIRTIO_NET_F_MAC, VIRTIO_F_VERSION_1}

\* sizeof(struct virtio_blk_req): type u32, reserved u32, sector u64
SIZEOF_VIRTIO_BLK_REQ == 16

(***************************************************************************)
(* Byte order.  cpu.h of the build is the AArch64 one ("dsb sy"), a        *)
(* little-endian CPU: cpu_to_le32/64 leave the value as it is, and swap    *)
(* the bytes on a big-endian build.                                        *)
(***************************************************************************)
CpuBigEndian == FALSE

cpu_to_le32(x) == IF CpuBigEndian THEN Bswap32(x) ELSE x

cpu_to_le64(x) == IF CpuBigEndian THEN Bswap64(x) ELSE x

\* what a device makes of a 32/64-bit field of a request header: a modern device
\* reads little-endian, a legacy device reads the guest's byte order
dev_read32(modernDev, x) == IF modernDev /\ CpuBigEndian THEN Bswap32(x) ELSE x

dev_read64(modernDev, x) == IF modernDev /\ CpuBigEndian THEN Bswap64(x) ELSE x

(***************************************************************************)
(* State.                                                                  *)
(*                                                                         *)
(* Block driver:                                                           *)
(*   blkHost      the device: features offered, capacity and blk_size of   *)
(*                its configuration region, maximum size of queue 0        *)
(*   blkFeatures  dev->features                                            *)
(*   blkGuest     the guest features written to the device                 *)
(*   blkStatus    the device status register                               *)
(*   blkLog       the values the driver wrote to the status register       *)
(*                since (and including) the last reset                     *)
(*   blkVq        dev->vq[0]: size, whether ring memory is allocated, the  *)
(*                descriptor table, avail.idx / avail.ring                 *)
(*   blkHdr       data->blkhdr, the request header in memory               *)
(*   blkCall      the last driver call: its arguments and outcome          *)
(*   blkFault     "no", or how a call that ran into undefined behaviour    *)
(*                ended: "trap" (it did not return) or "wild" (it wrote    *)
(*                through a pointer that is not the queue's)               *)
(***************************************************************************)
VARIABLES blkHost, blkFeatures, blkGuest, blkStatus, blkLog, blkVq, blkHdr,
          blkCall, blkFault

blkVars == <<blkHost, blkFeatures, blkGuest, blkStatus, blkLog, blkVq, blkHdr,
             blkCall, blkFault>>

(***************************************************************************)
(* Transport shim and virtqueue engine (virtio.c, modelled from sections   *)
(* 4.2 and 4.3 of the specification).                                      *)
(***************************************************************************)
\* set_status: an OR-into-register operation; the caller supplies the cumulative value
virtio_set_status(reg, value) == BitOr(reg, value)

\* negotiate: guest = host /\ supported
virtio_negotiate_features(host, supported) == host \cap supported

\* one descriptor entry, as fill_desc(id, addr, len, flags, next) writes it
Desc(addr, len, flags, next) ==
    [addr |-> addr, len |-> len, flags |-> flags, next |-> next]

\* free_desc: the slot is cleared
FreeDesc(nullAddr, zeroLen) == Desc(nullAddr, zeroLen, 0, 0)

\* The descriptor table of a queue of size q.  virtio_fill_desc indexes the table
\* with the id it is given; entries q and q + 1 stand for the memory that follows
\* the table, which a chain starting at q - 2 or q - 1 runs into.
DescIds(q) == 0 .. (q + 1)

virtio_fill_desc(table, id, addr, len, flags, next) ==
    [table EXCEPT ![id] = Desc(addr, len, flags, next)]

\* init_vq: a zeroed queue of the size the device reports; fails if that is 0 or
\* the platform allocator returns nothing
BlkZeroDesc == FreeDesc("null", U64(0))

virtio_queue_init_vq(q, allocOk) ==
    IF q = 0 \/ ~allocOk
    THEN [size |-> q, alloc |-> FALSE, desc |-> << >>, availIdx |-> 0,
          availRing |-> << >>]
    ELSE [size |-> q, alloc |-> TRUE,
          desc |-> [i \in DescIds(q) |-> BlkZeroDesc],
          availIdx |-> 0,
          availRing |-> [i \in 0 .. (q - 1) |-> 0]]

\* The record of a driver call kept in blkCall: the operation, whether it went
\* through (ok), what it returned, whether it notified the device, and for a
\* transfer its arguments, avail.idx before the call and the reason of a rejection.
BlkCallRec(op, ok, ret, notify, blocknum, cnt, type, idx0, why) ==
    [op |-> op, ok |-> ok, ret |-> ret,
     notify |-> notify, blocknum |-> blocknum, cnt |-> cnt, type |-> type,
     idx0 |-> idx0, why |-> why]

(***************************************************************************)
(* virtioblk_init, lines 30 - 80.                                          *)
(***************************************************************************)
\* line 36, 45: the two status values written before feature negotiation
BlkStatusAck == VIRTIO_STAT_ACKNOWLEDGE

BlkStatusDriver == BitOr(BlkStatusAck, VIRTIO_STAT_DRIVER)

\* line 64 as an assignment: status = VIRTIO_STAT_DRIVER_OK
BlkStatusDriverOk_Assign(status) == VIRTIO_STAT_DRIVER_OK

\* line 64: status |= VIRTIO_STAT_DRIVER_OK
BlkStatusDriverOk(status) == BitOr(status, VIRTIO_STAT_DRIVER_OK)

\* line 77: status |= VIRTIO_STAT_FAILED
BlkStatusFailed(status) == BitOr(status, VIRTIO_STAT_FAILED)

\* lines 67 - 74: the block size virtioblk_init returns
BlkInitBlkSize(hostFeatures, cfgBlkSize) ==
    IF VIRTIO_BLK_F_BLK_SIZE \in hostFeatures THEN cfgBlkSize ELSE DEFAULT_SECTOR_SIZE

\* The whole of virtioblk_init.  accept: the device keeps FEATURES_OK when the
\* driver sets it; allocOk: the allocation of the ring memory succeeds.
virtioblk_init(accept, allocOk) ==
    LET modern  == VIRTIO_F_VERSION_1 \in blkFeatures
        \* lines 39 - 46: reset, ACKNOWLEDGE, ACKNOWLEDGE|DRIVER
        log0    == <<0, BlkStatusAck, BlkStatusDriver>>
        reg0    == virtio_set_status(virtio_set_status(0, BlkStatusAck), BlkStatusDriver)
        \* line 50: negotiation writes the guest features and sets FEATURES_OK
        guest   == virtio_negotiate_features(blkHost.features, DRIVER_FEATURE_SUPPORT_BLK)
        fok     == BitOr(reg0, VIRTIO_STAT_FEATURES_OK)
        negOk   == modern => accept
        log1    == IF modern THEN Append(log0, fok) ELSE log0
        reg1    == IF modern /\ accept THEN virtio_set_status(reg0, fok) ELSE reg0
        \* line 53: virtio_get_status re-reads the register into status
        status1 == IF modern THEN reg1 ELSE BlkStatusDriver
        vq      == virtio_queue_init_vq(blkHost.qmax, allocOk)
        ok      == negOk /\ vq.alloc
        \* dev_error after a failed negotiation: status is still the local value of line 45
        final   == IF ok THEN BlkStatusDriverOk(status1)
                   ELSE IF negOk THEN BlkStatusFailed(status1)
                   ELSE BlkStatusFailed(BlkStatusDriver)
        ret     == IF ok THEN BlkInitBlkSize(blkHost.features, blkHost.blk_size) ELSE 0
    IN  /\ blkFault = "no"
        /\ blkGuest' = (IF modern THEN guest ELSE {VIRTIO_BLK_F_BLK_SIZE})
        /\ blkFeatures' = (IF modern /\ accept THEN guest ELSE blkFeatures)
        /\ blkLog' = Append(log1, final)
        /\ blkStatus' = virtio_set_status(reg1, final)
        /\ blkVq' = (IF negOk THEN vq ELSE blkVq)
        /\ blkCall' = BlkCallRec("init", ok, ret, FALSE, U64(0), U64(0), 0, 0, "")
        /\ UNCHANGED <<blkHost, blkHdr, blkFault>>

(***************************************************************************)
(* virtioblk_shutdown, lines 87 - 95: FAILED, then reset.                  *)
(***************************************************************************)
virtioblk_shutdown ==
    /\ blkFault = "no"
    /\ blkStatus' = 0
    /\ blkLog' = <<0>>
    /\ blkCall' = BlkCallRec("shutdown", TRUE, 0, FALSE, U64(0), U64(0), 0, 0, "")
    /\ UNCHANGED <<blkHost, blkFeatures, blkGuest, blkVq, blkHdr, blkFault>>

(***************************************************************************)
(* fill_blk_hdr, lines 97 - 109.  The sector parameter is a uint32_t: the  *)
(* 64-bit argument is converted to 32 bits at the call, and the header's   *)
(* 64-bit sector field is assigned from the parameter.                     *)
(***************************************************************************)
fill_blk_hdr(is_modern, type, ioprio, sector) ==
    LET sector32 == U64ToU32(sector)
    IN  IF is_modern
        THEN [type |-> cpu_to_le32(U64(type)), sector |-> cpu_to_le64(sector32)]
        ELSE [type |-> U64(type), sector |-> sector32]

(***************************************************************************)
(* virtioblk_transfer, lines 120 - 179.                                    *)
(***************************************************************************)
\* line 134 with the count left out: blocknum > capacity
BlkBeyondEnd_StartOnly(blocknum, cnt, capacity) == U64Gt(blocknum, capacity)

\* line 134: blocknum + cnt - 1 > capacity, in uint64_t arithmetic
BlkBeyondEnd(blocknum, cnt, capacity) ==
    U64Gt(U64Sub(U64Add(blocknum, cnt), U64(1)), capacity)

\* line 142
BlkUnaligned(blk_size) == blk_size % DEFAULT_SECTOR_SIZE # 0

\* line 150: blocknum * blk_size / DEFAULT_SECTOR_SIZE, in uint64_t arithmetic
BlkSector(blocknum, blk_size) ==
    U64DivSmall(U64MulSmall(blocknum, blk_size), DEFAULT_SECTOR_SIZE)

\* line 162: cnt * blk_size, passed as the uint32_t len of the descriptor
BlkDataLen(cnt, blk_size) == U64ToU32(U64MulSmall(cnt, blk_size))

\* line 163: VRING_DESC_F_NEXT | ((type & 1) ? 0 : VRING_DESC_F_WRITE)
BlkDataFlags(type) ==
    BitOr(VRING_DESC_F_NEXT, IF BitAnd(type, 1) # 0 THEN 0 ELSE VRING_DESC_F_WRITE)

\* line 153
BlkDescId(avail_idx, size) == (avail_idx * 3) % size

\* lines 155 - 169: the three descriptors of the request
BlkFillChain(table, id, cnt, blk_size, type) ==
    LET t1 == virtio_fill_desc(table, id, "blkhdr_pa", U64(SIZEOF_VIRTIO_BLK_REQ),
                               VRING_DESC_F_NEXT, id + 1)
        t2 == virtio_fill_desc(t1, id + 1, "buf", BlkDataLen(cnt, blk_size),
                               BlkDataFlags(type), id + 2)
    IN  virtio_fill_desc(t2, id + 2, "status_pa", U64(1), VRING_DESC_F_WRITE, 0)

\* The whole of virtioblk_transfer.  A rejected request returns before anything
\* is written; a request on a queue without ring memory divides by a zero size
\* (line 146) or stores through a null descriptor pointer: undefined behaviour,
\* whose outcome is a trap or a store outside the queue.
virtioblk_transfer(blocknum, cnt, type) ==
    LET capacity  == blkHost.capacity
        blk_size  == blkHost.blk_size
        size      == blkVq.size
        avail_idx == blkVq.availIdx % size
        id        == BlkDescId(avail_idx, size)
    IN  /\ blkFault = "no"
        /\ IF BlkBeyondEnd(blocknum, cnt, capacity)
           THEN /\ blkCall' = BlkCallRec("transfer", FALSE, 0, FALSE, blocknum, cnt,
                                         type, blkVq.availIdx, "range")
                /\ UNCHANGED <<blkVq, blkHdr, blkFault>>
           ELSE IF BlkUnaligned(blk_size)
           THEN /\ blkCall' = BlkCallRec("transfer", FALSE, 0, FALSE, blocknum, cnt,
                                         type, blkVq.availIdx, "align")
                /\ UNCHANGED <<blkVq, blkHdr, blkFault>>
           ELSE IF ~blkVq.alloc
           THEN /\ \E ub \in {"trap", "wild"} :
                      /\ blkFault' = ub
                      /\ blkCall' = BlkCallRec("transfer", TRUE, 0, ub = "wild",
                                               blocknum, cnt, type, blkVq.availIdx, "ub")
                /\ UNCHANGED <<blkVq, blkHdr>>
           ELSE /\ blkHdr' = fill_blk_hdr(blkFeatures # {}, type, 1,
                                          BlkSector(blocknum, blk_size))
                /\ blkVq' = [blkVq EXCEPT
                       !.desc = BlkFillChain(blkVq.desc, id, cnt, blk_size, type),
                       !.availRing[avail_idx % size] = id,
                       !.availIdx = avail_idx + 1]
                /\ blkCall' = BlkCallRec("transfer", TRUE, 0, TRUE, blocknum, cnt,
                                         type, blkVq.availIdx, "")
                /\ UNCHANGED blkFault
        /\ UNCHANGED <<blkHost, blkFeatures, blkGuest, blkStatus, blkLog>>

(***************************************************************************)
(* The block devices and the requests of the model.                        *)
(***************************************************************************)
\* 2^32 + 16 sectors
BlkBigCapacity == U64Make(16, 0, 1, 0)

BlkDevices ==
    { [features |-> {}, capacity |-> U64(10), blk_size |-> 512, qmax |-> 4],
      [features |-> {VIRTIO_BLK_F_BLK_SIZE}, capacity |-> BlkBigCapacity,
       blk_size |-> 4096, qmax |-> 4],
      [features |-> {VIRTIO_F_VERSION_1, VIRTIO_BLK_F_BLK_SIZE},
       capacity |-> BlkBigCapacity, blk_size |-> 4096, qmax |-> 4],
      [features |-> {VIRTIO_F_VERSION_1}, capacity |-> U64(10), blk_size |-> 512,
       qmax |-> 4],
      [features |-> {VIRTIO_BLK_F_BLK_SIZE}, capacity |-> U64(10), blk_size |-> 520,
       qmax |-> 4],
      [features |-> {}, capacity |-> U64(10), blk_size |-> 512, qmax |-> 0],
      \* BLK_SIZE not offered: the blk_size field of the configuration is not set
      [features |-> {}, capacity |-> U64(10), blk_size |-> 0, qmax |-> 4] }

BlkBlocknums == {U64(0), U64(8), U64Make(0, 0, 1, 0)}

BlkCounts == {U64(1), U64(5)}

BlkTypes == {VIRTIO_BLK_T_IN, VIRTIO_BLK_T_OUT, VIRTIO_BLK_T_FLUSH}

\* The device structure as bus discovery hands it over: dev->features holds
\* VIRTIO_F_VERSION_1 for a modern transport, queue 0 is not set up.
BlkInit ==
    /\ blkHost \in BlkDevices
    /\ blkFeatures = blkHost.features \cap {VIRTIO_F_VERSION_1}
    /\ blkGuest = {}
    /\ blkStatus = 0
    /\ blkLog = <<0>>
    /\ blkVq = virtio_queue_init_vq(0, FALSE)
    /\ blkHdr = [type |-> U64(0), sector |-> U64(0)]
    /\ blkCall = [op |-> "none", ok |-> TRUE, ret |-> 0,
                  notify |-> FALSE, blocknum |-> U64(0), cnt |-> U64(0), type |-> 0,
                  idx0 |-> 0, why |-> ""]
    /\ blkFault = "no"

(***************************************************************************)
(* Network driver.                                                         *)
(*                                                                         *)
(*   vnet          per device/instance i: the device (host), whether the   *)
(*                 instance is open, driver.running, vdev.features, the    *)
(*                 status register and the values written to it since the  *)
(*                 last reset, the RX and TX queues, the RX and TX buffer  *)
(*                 pools (flat byte arrays), the device's cursors into the *)
(*                 two available rings, the payloads transmitted and       *)
(*                 received in this session, and the platform allocations  *)
(*                 that are live / whose pointer was dropped               *)
(*   net_hdr_size  the static of line 285                                  *)
(*   last_rx_idx, last_tx_idx   the statics of lines 297 - 298             *)
(*   netCall       the last step: the driver call and its outcome (return  *)
(*                 value, queues notified), or "host" for a device step    *)
(***************************************************************************)
VARIABLES vnet, net_hdr_size, last_rx_idx, last_tx_idx, netCall

netVars == <<vnet, net_hdr_size, last_rx_idx, last_tx_idx, netCall>>

W16 == 2^16

VQ_RX == 0
VQ_TX == 1

\* sizeof(struct virtio_net_hdr), lines 275 - 283, and of virtio_net_hdr_v1, 287 - 295
SIZEOF_VIRTIO_NET_HDR == 10
SIZEOF_VIRTIO_NET_HDR_V1 == 12

\* The per-slot data capacity (virtio-net.h).  The model scales it down: payloads
\* are byte sequences of at most this length, and one longer.
BUFFER_ENTRY_SIZE == 2

\* the number of transmits of one session that the model follows
MaxXmit == 2

\* virtio_cpu_to_modern16 / virtio_modern16_to_cpu: little-endian conversion for a
\* modern device, nothing for a legacy one
virtio_cpu_to_modern16(features, x) ==
    IF VIRTIO_F_VERSION_1 \in features /\ CpuBigEndian THEN Swap16(x) ELSE x

virtio_modern16_to_cpu(features, x) == virtio_cpu_to_modern16(features, x)

\* a guest address: a region and a byte offset into it
Addr(region, off) == [region |-> region, off |-> off]

NullAddr == Addr("null", 0)

NetZeroDesc == FreeDesc(NullAddr, 0)

Zeros(n) == [k \in 1 .. n |-> 0]

\* a queue of size q as init_vq leaves it: zeroed rings
NetQueue(q) ==
    [size |-> q,
     desc |-> [k \in DescIds(q) |-> NetZeroDesc],
     availFlags |-> 0, availIdx |-> 0,
     availRing |-> [k \in 0 .. (q - 1) |-> 0],
     usedIdx |-> 0,
     usedRing |-> [k \in 0 .. (q - 1) |-> [id |-> 0, len |-> 0]]]

NoQueue == NetQueue(0)

\* memcpy(dst + off, src, Len(src)) into a flat byte array
MemWrite(mem, off, src) ==
    [k \in 1 .. Len(mem) |->
        IF k > off /\ k <= off + Len(src) THEN src[k - off] ELSE mem[k]]

\* the len bytes at offset off of a flat byte array
MemRead(mem, off, len) == SubSeq(mem, off + 1, off + len)

(***************************************************************************)
(* virtionet_open, lines 652 - 682, with virtionet_init_mmio (331 - 350;   *)
(* the build defines VIRTIO_USE_MMIO) and virtionet_init (357 - 471).      *)
(***************************************************************************)
\* lines 347, 360: the status values written before feature negotiation
NetStatusAck == VIRTIO_STAT_ACKNOWLEDGE

NetStatusDriver == BitOr(VIRTIO_STAT_ACKNOWLEDGE, VIRTIO_STAT_DRIVER)

\* line 448: status |= VIRTIO_STAT_DRIVER_OK | VIRTIO_STAT_FEATURES_OK
NetStatusDriverOk(status) ==
    BitOr(status, BitOr(VIRTIO_STAT_DRIVER_OK, VIRTIO_STAT_FEATURES_OK))

\* line 468: status |= VIRTIO_STAT_FAILED
NetStatusFailed(status) == BitOr(status, VIRTIO_STAT_FAILED)

\* lines 396 - 397
NetStatusQueueFailed ==
    BitOr(BitOr(VIRTIO_STAT_ACKNOWLEDGE, VIRTIO_STAT_DRIVER), VIRTIO_STAT_FAILED)

\* lines 381, 384
NetHdrSize(features) ==
    IF VIRTIO_F_VERSION_1 \in features THEN SIZEOF_VIRTIO_NET_HDR_V1
    ELSE SIZEOF_VIRTIO_NET_HDR

\* lines 407 - 408 and 415 - 416: the sizes of the two pools
NetRxPoolSize(hdr, queue_size) == ((BUFFER_ENTRY_SIZE + hdr) * queue_size) \div 2

NetTxPoolSize(queue_size) == (BUFFER_ENTRY_SIZE * queue_size) \div 2

\* lines 423 - 436: the RX descriptors and available ring entries 0 .. queue_size/2 - 1
RECURSIVE NetPrepost(_, _, _, _)
NetPrepost(q, hdr, features, i) ==
    IF i = 0 THEN q
    ELSE LET p    == NetPrepost(q, hdr, features, i - 1)
             j    == i - 1
             off  == j * (BUFFER_ENTRY_SIZE + hdr)
             id   == j * 2
             d1   == virtio_fill_desc(p.desc, id, Addr("rx", off), hdr,
                                      BitOr(VRING_DESC_F_NEXT, VRING_DESC_F_WRITE), id + 1)
             d2   == virtio_fill_desc(d1, id + 1, Addr("rx", off + hdr),
                                      BUFFER_ENTRY_SIZE, VRING_DESC_F_WRITE, 0)
         IN  [p EXCEPT !.desc = d2,
                       !.availRing[j] = virtio_cpu_to_modern16(features, id)]

\* lines 439 - 440
NetRxPublish(q, features, queue_size) ==
    [q EXCEPT !.availFlags = virtio_cpu_to_modern16(features, 0),
              !.availIdx = virtio_cpu_to_modern16(features, queue_size \div 2)]

\* lines 444 - 445
NetTxPublish(q, features) ==
    [q EXCEPT !.availFlags = virtio_cpu_to_modern16(features, VRING_AVAIL_F_NO_INTERRUPT),
              !.availIdx = 0]

\* An instance that is not open: no queues, no pools.  The device keeps its status.
NetClosed(n, status, log, live, lost) ==
    [n EXCEPT !.open = FALSE, !.running = 0, !.status = status, !.log = log,
              !.rx = NoQueue, !.tx = NoQueue, !.rxPool = << >>, !.txPool = << >>,
              !.hostRx = 0, !.hostTx = 0, !.sent = << >>, !.rcvd = << >>,
              !.live = live, !.lost = lost]

\* The instance after virtionet_open.  fail names the allocation that fails
\* ("none", "vnet", "rxq", "txq", "rxpool", "txpool"); accept: the device keeps
\* FEATURES_OK.  The result carries ok (the open returned an instance) and hdr, the
\* value net_hdr_size has afterwards.
NetOpenResult(n, fail, accept, hdr0) ==
    LET features0 == n.host.features \cap {VIRTIO_F_VERSION_1}
        modern    == VIRTIO_F_VERSION_1 \in features0
        log0      == <<0, NetStatusAck, NetStatusDriver>>
        reg0      == virtio_set_status(virtio_set_status(0, NetStatusAck), NetStatusDriver)
        guest     == virtio_negotiate_features(n.host.features, DRIVER_FEATURE_SUPPORT_NET)
        fok       == BitOr(reg0, VIRTIO_STAT_FEATURES_OK)
        log1      == IF modern THEN Append(log0, fok) ELSE log0
        reg1      == IF modern /\ accept THEN virtio_set_status(reg0, fok) ELSE reg0
        features1 == IF modern THEN guest ELSE features0
        status1   == IF modern THEN reg1 ELSE NetStatusDriver
        hdr       == NetHdrSize(features0)
        qsz       == n.host.qmax
        rxq       == NetRxPublish(NetPrepost(NetQueue(qsz), hdr, features1, qsz \div 2),
                                  features1, qsz)
        txq       == NetTxPublish(NetQueue(qsz), features1)
        done(st)  == Append(log1, st)
    IN  IF fail = "vnet"
        THEN [ok |-> FALSE, hdr |-> hdr0, inst |-> n]
        ELSE IF modern /\ ~accept
        THEN [ok |-> FALSE, hdr |-> hdr0,
              inst |-> NetClosed(n, virtio_set_status(reg1, NetStatusFailed(NetStatusDriver)),
                                 done(NetStatusFailed(NetStatusDriver)), n.live, n.lost)]
        ELSE IF qsz = 0 \/ fail \in {"rxq", "txq"}
        THEN [ok |-> FALSE, hdr |-> hdr,
              inst |-> NetClosed(n, virtio_set_status(reg1, NetStatusQueueFailed),
                                 done(NetStatusQueueFailed), n.live,
                                 \* both queues are set up before either is checked
                                 n.lost \cup (IF qsz = 0 THEN {}
                                              ELSE IF fail = "txq" THEN {"rxring"}
                                              ELSE {"txring"}))]
        ELSE IF fail \in {"rxpool", "txpool"}
        THEN [ok |-> FALSE, hdr |-> hdr,
              inst |-> NetClosed(n, virtio_set_status(reg1, NetStatusFailed(status1)),
                                 done(NetStatusFailed(status1)), n.live,
                                 n.lost \cup {"rxring", "txring"}
                                        \cup (IF fail = "txpool" THEN {"rxpool"} ELSE {}))]
        ELSE [ok |-> TRUE, hdr |-> hdr,
              inst |-> [n EXCEPT
                  !.open = TRUE, !.running = 1, !.features = features1,
                  !.guest = (IF modern THEN guest ELSE {}),
                  !.status = virtio_set_status(reg1, NetStatusDriverOk(status1)),
                  !.log = done(NetStatusDriverOk(status1)),
                  !.rx = rxq, !.tx = txq,
                  !.rxPool = Zeros(NetRxPoolSize(hdr, qsz)),
                  !.txPool = Zeros(NetTxPoolSize(qsz)),
                  !.hostRx = 0, !.hostTx = 0, !.sent = << >>, !.rcvd = << >>,
                  !.live = {"vnet", "rxring", "txring", "rxpool", "txpool"}]]

\* The record of a step kept in netCall: the operation, the instance, its argument
\* (the length of the frame of an xmit, maxlen of a receive), whether it went
\* through, what it returned and the queues it notified.
NetCallRec(op, i, arg, ok, ret, notify) ==
    [op |-> op, inst |-> i, arg |-> arg, ok |-> ok, ret |-> ret, notify |-> notify]

virtionet_open(i, fail, accept) ==
    LET r == NetOpenResult(vnet[i], fail, accept, net_hdr_size)
    IN  /\ ~vnet[i].open
        /\ vnet' = [vnet EXCEPT ![i] = r.inst]
        /\ net_hdr_size' = r.hdr
        \* line 442: last_rx_idx = vq_rx->used->idx of the zeroed queue
        /\ last_rx_idx' = (IF r.ok
                           THEN virtio_modern16_to_cpu(r.inst.features, r.inst.rx.usedIdx)
                           ELSE last_rx_idx)
        /\ netCall' = NetCallRec("open", i, 0, r.ok, 0, IF r.ok THEN {VQ_RX} ELSE {})
        /\ UNCHANGED last_tx_idx

(***************************************************************************)
(* virtionet_close, lines 684 - 690, with virtionet_term, 479 - 507.       *)
(* An open instance is running.  term writes FAILED, resets the device,    *)
(* frees the RX pool, drops both pool pointers and terminates both queues; *)
(* close then frees the instance.                                          *)
(***************************************************************************)
\* lines 499 - 504: what term frees, and what it only forgets
NetTermFreed == {"rxpool", "rxring", "txring"}

NetTermDropped == {"txpool"}

virtionet_close(i) ==
    LET n == vnet[i]
    IN  /\ n.open
        /\ vnet' = [vnet EXCEPT ![i] =
               NetClosed(n, 0, <<0>>, {},
                         n.lost \cup (n.live \cap NetTermDropped))]
        /\ netCall' = NetCallRec("close", i, 0, TRUE, 0, {})
        /\ UNCHANGED <<net_hdr_size, last_rx_idx, last_tx_idx>>

(***************************************************************************)
(* virtionet_xmit, lines 513 - 562 (through virtionet_write, 699 - 704).   *)
(***************************************************************************)
\* line 522
NetTooBig(len) == len > BUFFER_ENTRY_SIZE

\* line 534
NetTxDescId(idx, size) == (idx * 2) % size

\* lines 535 - 537: the offset into the TX pool of the slot the payload is copied to
NetTxBufOffset(idx, size) ==
    LET buf_index == (idx * 2) % (size \div 2)
    IN  (buf_index \div 2) * BUFFER_ENTRY_SIZE

\* lines 540 - 548: the two descriptors of the frame
NetTxFillChain(table, id, hdr, off, len) ==
    LET t0 == [table EXCEPT ![id] = NetZeroDesc, ![id + 1] = NetZeroDesc]
        t1 == virtio_fill_desc(t0, id, Addr("nethdr", 0), hdr, VRING_DESC_F_NEXT, id + 1)
    IN  virtio_fill_desc(t1, id + 1, Addr("tx", off), len, 0, 0)

\* the instance after an accepted virtionet_xmit of buf
NetXmitResult(n, buf, hdr) ==
    LET len == Len(buf)
        q   == n.tx
        idx == virtio_modern16_to_cpu(n.features, q.availIdx)
        id  == NetTxDescId(idx, q.size)
        off == NetTxBufOffset(idx, q.size)
    IN  [n EXCEPT
            !.txPool = MemWrite(n.txPool, off, buf),
            !.tx = [q EXCEPT
                !.desc = NetTxFillChain(q.desc, id, hdr, off, len),
                !.availRing[idx % q.size] = virtio_cpu_to_modern16(n.features, id),
                !.availIdx = virtio_cpu_to_modern16(n.features, (idx + 1) % W16)],
            !.sent = Append(n.sent, buf)]

virtionet_xmit(i, buf) ==
    LET n == vnet[i]
    IN  /\ n.open
        /\ Len(n.sent) < MaxXmit
        /\ IF NetTooBig(Len(buf))
           THEN /\ netCall' = NetCallRec("xmit", i, Len(buf), FALSE, 0, {})
                /\ UNCHANGED <<vnet, last_tx_idx>>
           ELSE /\ vnet' = [vnet EXCEPT ![i] = NetXmitResult(n, buf, net_hdr_size)]
                \* line 557
                /\ last_tx_idx' = n.tx.usedIdx
                /\ netCall' = NetCallRec("xmit", i, Len(buf), TRUE, Len(buf), {VQ_TX})
        /\ UNCHANGED <<net_hdr_size, last_rx_idx>>

(***************************************************************************)
(* virtionet_receive_check, lines 564 - 581.                               *)
(***************************************************************************)
NetRxPending(n, cursor) == cursor # virtio_modern16_to_cpu(n.features, n.rx.usedIdx)

virtionet_receive_check(i) ==
    LET n == vnet[i]
    IN  /\ n.open
        /\ netCall' = NetCallRec("receive_check", i, 0, TRUE,
               IF NetRxPending(n, last_rx_idx)
               THEN n.rx.usedRing[last_rx_idx % n.rx.size].len ELSE 0, {})
        /\ UNCHANGED <<vnet, net_hdr_size, last_rx_idx, last_tx_idx>>

(***************************************************************************)
(* virtionet_receive, lines 586 - 650 (through virtionet_read, 692 - 697). *)
(***************************************************************************)
\* lines 602 - 603: the data descriptor of the completed chain
NetRxDataId(id_raw, size) == (id_raw + 1) % size

\* lines 604 - 612: the number of bytes copied (uint32_t arithmetic)
NetRxLen(used_len, hdr, maxlen) ==
    LET len == used_len - hdr
    IN  IF len < 0 \/ len > maxlen THEN maxlen ELSE len

\* line 642 re-posting the descriptor before the head: id - 2
NetRxRepostId_Before(id) == (id - 2) % W16

\* line 642: the ring entry of the re-post, id - 1 converted to 16 bits
NetRxRepostId(id) == (id - 1) % W16

\* the instance after virtionet_receive consumed the used entry at cursor
NetReceiveResult(n, cursor, hdr, maxlen) ==
    LET q     == n.rx
        e     == q.usedRing[cursor % q.size]
        id    == NetRxDataId(e.id, q.size)
        len   == NetRxLen(e.len, hdr, maxlen)
        data  == MemRead(n.rxPool, q.desc[id].addr.off, len)
        avail == virtio_modern16_to_cpu(n.features, q.availIdx)
    IN  [n EXCEPT
            !.rx = [q EXCEPT
                !.availRing[avail % q.size] =
                    virtio_cpu_to_modern16(n.features, NetRxRepostId(id)),
                !.availIdx = virtio_cpu_to_modern16(n.features, (avail + 1) % W16)],
            !.rcvd = Append(n.rcvd, [data |-> data, maxlen |-> maxlen])]

virtionet_receive(i, maxlen) ==
    LET n == vnet[i]
        r == NetReceiveResult(n, last_rx_idx, net_hdr_size, maxlen)
    IN  /\ n.open
        /\ IF ~NetRxPending(n, last_rx_idx)
           THEN /\ netCall' = NetCallRec("receive", i, maxlen, FALSE, 0, {})
                /\ UNCHANGED <<vnet, last_rx_idx>>
           ELSE /\ vnet' = [vnet EXCEPT ![i] = r]
                /\ last_rx_idx' = (last_rx_idx + 1) % W16
                /\ netCall' = NetCallRec("receive", i, maxlen, TRUE,
                                         Len(r.rcvd[Len(r.rcvd)].data), {VQ_RX})
        /\ UNCHANGED <<net_hdr_size, last_tx_idx>>

(***************************************************************************)
(* The device side of a network instance: a loopback.  In one step the     *)
(* device takes the next chain of the TX available ring, reads the frame   *)
(* the chain's descriptors point at (net header, then payload), returns    *)
(* the chain in the TX used ring, writes a net header and the payload into *)
(* the next chain of the RX available ring and returns that chain in the   *)
(* RX used ring with the number of bytes written.  It waits while no RX    *)
(* chain is posted.                                                        *)
(***************************************************************************)
\* the header size the device uses: that of the negotiated layout
HostHdrSize(n) == NetHdrSize(n.features)

\* the descriptor ids of the chain starting at id, following NEXT, at most fuel long
RECURSIVE HostChain(_, _, _)
HostChain(q, id, fuel) ==
    IF fuel = 0 \/ id >= q.size THEN << >>
    ELSE IF BitAnd(q.desc[id].flags, VRING_DESC_F_NEXT) # 0
         THEN <<id>> \o HostChain(q, q.desc[id].next, fuel - 1)
         ELSE <<id>>

\* the bytes a descriptor points at
HostReadDesc(n, d) ==
    IF d.addr.region = "tx" THEN MemRead(n.txPool, d.addr.off, d.len)
    ELSE IF d.addr.region = "nethdr" THEN Zeros(d.len)
    ELSE << >>

\* the bytes of a whole TX chain
RECURSIVE HostGather(_, _)
HostGather(n, chain) ==
    IF chain = << >> THEN << >>
    ELSE HostReadDesc(n, n.tx.desc[Head(chain)]) \o HostGather(n, Tail(chain))

\* bytes written into the buffers of an RX chain, each buffer filled up to its length
RECURSIVE HostScatter(_, _, _, _)
HostScatter(pool, q, chain, bytes) ==
    IF chain = << >> \/ bytes = << >> THEN pool
    ELSE LET d == q.desc[Head(chain)]
             k == IF Len(bytes) < d.len THEN Len(bytes) ELSE d.len
         IN  HostScatter(MemWrite(pool, d.addr.off, SubSeq(bytes, 1, k)), q,
                         Tail(chain), SubSeq(bytes, k + 1, Len(bytes)))

HostLoopback(i) ==
    LET n       == vnet[i]
        hdr     == HostHdrSize(n)
        thead   == n.tx.availRing[n.hostTx % n.tx.size]
        frame   == HostGather(n, HostChain(n.tx, thead, n.tx.size))
        payload == SubSeq(frame, hdr + 1, Len(frame))
        rhead   == n.rx.availRing[n.hostRx % n.rx.size]
        rchain  == HostChain(n.rx, rhead, n.rx.size)
    IN  /\ n.open
        /\ n.hostTx # n.tx.availIdx
        /\ n.hostRx # n.rx.availIdx
        /\ thead < n.tx.size
        /\ rhead < n.rx.size
        /\ vnet' = [vnet EXCEPT ![i] = [n EXCEPT
               !.hostTx = (n.hostTx + 1) % W16,
               !.hostRx = (n.hostRx + 1) % W16,
               !.tx = [n.tx EXCEPT
                   !.usedRing[n.tx.usedIdx % n.tx.size] = [id |-> thead, len |-> 0],
                   !.usedIdx = (n.tx.usedIdx + 1) % W16],
               !.rxPool = HostScatter(n.rxPool, n.rx, rchain, Zeros(hdr) \o payload),
               !.rx = [n.rx EXCEPT
                   !.usedRing[n.rx.usedIdx % n.rx.size] =
                       [id |-> rhead, len |-> hdr + Len(payload)],
                   !.usedIdx = (n.rx.usedIdx + 1) % W16]]]
        /\ netCall' = NetCallRec("host", i, 0, TRUE, 0, {})
        /\ UNCHANGED <<net_hdr_size, last_rx_idx, last_tx_idx>>

(***************************************************************************)
(* The network devices, payloads and receive buffer sizes of the model.    *)
(***************************************************************************)
NetIds == {1, 2}

NetLegacyDevice == [features |-> {}, qmax |-> 4]

NetModernDevice == [features |-> {VIRTIO_F_VERSION_1, VIRTIO_NET_F_MAC}, qmax |-> 4]

NetNoQueueDevice == [features |-> {}, qmax |-> 0]

NetDevices == {NetLegacyDevice, NetModernDevice, NetNoQueueDevice}

NetOversize == [k \in 1 .. (BUFFER_ENTRY_SIZE + 1) |-> 1]

NetPayloads == {<<1>>, <<2, 1>>, NetOversize}

NetMaxlens == {1, BUFFER_ENTRY_SIZE}

NetAllocFailures == {"none", "vnet", "rxq", "txq", "rxpool", "txpool"}

\* an instance that was never opened, on device host
NetFresh(host) ==
    [host |-> host, open |-> FALSE, running |-> 0,
     features |-> host.features \cap {VIRTIO_F_VERSION_1}, guest |-> {},
     status |-> 0, log |-> <<0>>, rx |-> NoQueue, tx |-> NoQueue,
     rxPool |-> << >>, txPool |-> << >>, hostRx |-> 0, hostTx |-> 0,
     sent |-> << >>, rcvd |-> << >>, live |-> {}, lost |-> {}]

NetGlobalsInit ==
    /\ net_hdr_size = 0
    /\ last_rx_idx = 0
    /\ last_tx_idx = 0
    /\ netCall = [op |-> "none", inst |-> 0, arg |-> 0, ok |-> TRUE, ret |-> 0,
                  notify |-> {}]

\* one device, instance 1; instance 2 is never opened
NetInit ==
    /\ \E d \in NetDevices :
          vnet = [i \in NetIds |-> NetFresh(IF i = 1 THEN d ELSE NetLegacyDevice)]
    /\ NetGlobalsInit

(***************************************************************************)
(* Memory ordering of the submission paths.  The driver's stores to the    *)
(* shared rings are plain stores: each becomes visible to the host at some *)
(* later moment, in any order except that two stores to one location stay  *)
(* in program order.  sync() (cpu.h, lines 206 - 210: dsb sy) completes    *)
(* only when every earlier store is visible.  A submission path is the     *)
(* sequence of its memory events in program order.                         *)
(***************************************************************************)
VARIABLES moPath, moProg, moPc, moPending, moVisible, moIdxState, moKicked

moVars == <<moPath, moProg, moPc, moPending, moVisible, moIdxState, moKicked>>

\* the queue size of the paths below
MoQueueSize == 4

\* events: a store to or load of <<queue, field, index>>, a barrier, a register
\* write of the transport, a notify of a queue
MoSt(q, f, k) == [op |-> "st", loc |-> <<q, f, k>>]

MoLd(q, f, k) == [op |-> "ld", loc |-> <<q, f, k>>]

MoMb == [op |-> "mb", loc |-> <<0, "", 0>>]

MoReg(name) == [op |-> "reg", loc |-> <<0, name, 0>>]

\* virtio_queue_notify: a write to the notify register of the transport
virtio_queue_notify(q) == [op |-> "notify", loc |-> <<q, "notify", 0>>]

\* virtioblk_transfer without the mb() of line 172
MoBlkTransfer_NoMb(idx0) ==
    LET avail_idx == idx0 % MoQueueSize
        id        == BlkDescId(avail_idx, MoQueueSize)
    IN  << MoLd(0, "avail.idx", 0), MoSt(0, "blkhdr", 0),
           MoSt(0, "desc", id), MoSt(0, "desc", id + 1), MoSt(0, "desc", id + 2),
           MoSt(0, "avail.ring", avail_idx % MoQueueSize),
           MoSt(0, "avail.idx", 0),
           virtio_queue_notify(0) >>

\* virtioblk_transfer, lines 146 - 176
MoBlkTransfer(idx0) ==
    LET avail_idx == idx0 % MoQueueSize
        id        == BlkDescId(avail_idx, MoQueueSize)
    IN  << MoLd(0, "avail.idx", 0), MoSt(0, "blkhdr", 0),
           MoSt(0, "desc", id), MoSt(0, "desc", id + 1), MoSt(0, "desc", id + 2),
           MoSt(0, "avail.ring", avail_idx % MoQueueSize),
           MoMb,
           MoSt(0, "avail.idx", 0),
           virtio_queue_notify(0) >>

\* virtionet_xmit, lines 533 - 559: memcpy, free_desc twice, fill_desc twice, ring,
\* sync, idx, sync, the read of used->idx, notify
MoNetXmit(idx0) ==
    LET id == NetTxDescId(idx0, MoQueueSize)
    IN  << MoLd(VQ_TX, "avail.idx", 0),
           MoSt(VQ_TX, "buf", NetTxBufOffset(idx0, MoQueueSize)),
           MoSt(VQ_TX, "desc", id), MoSt(VQ_TX, "desc", id + 1),
           MoSt(VQ_TX, "desc", id), MoSt(VQ_TX, "desc", id + 1),
           MoSt(VQ_TX, "avail.ring", idx0 % MoQueueSize),
           MoMb,
           MoSt(VQ_TX, "avail.idx", 0),
           MoMb,
           MoLd(VQ_TX, "used.idx", 0),
           virtio_queue_notify(VQ_TX) >>

\* virtionet_receive, lines 595 - 647, a frame being pending: the reads of the used
\* ring, of the descriptor and of the buffer, then the re-post
MoNetReceive(idx0) ==
    << MoLd(VQ_RX, "used.idx", 0), MoLd(VQ_RX, "used.ring", 0),
       MoLd(VQ_RX, "desc", 1), MoLd(VQ_RX, "buf", 0),
       MoLd(VQ_RX, "avail.idx", 0),
       MoSt(VQ_RX, "avail.ring", idx0 % MoQueueSize),
       MoMb,
       MoSt(VQ_RX, "avail.idx", 0),
       virtio_queue_notify(VQ_RX) >>

\* lines 423 - 436: the pre-post loop, iterations i .. queue_size / 2 - 1
RECURSIVE MoPrepost(_)
MoPrepost(i) ==
    IF i >= MoQueueSize \div 2 THEN << >>
    ELSE << MoSt(VQ_RX, "desc", i * 2), MoSt(VQ_RX, "desc", i * 2 + 1),
            MoSt(VQ_RX, "avail.ring", i) >> \o MoPrepost(i + 1)

\* virtionet_init, lines 423 - 453
MoNetInit(idx0) ==
    MoPrepost(0) \o
    << MoMb,
       MoSt(VQ_RX, "avail.flags", 0), MoSt(VQ_RX, "avail.idx", 0),
       MoLd(VQ_RX, "used.idx", 0),
       MoSt(VQ_TX, "avail.flags", 0), MoSt(VQ_TX, "avail.idx", 0),
       MoReg("status"), MoReg("queue_ready"),
       virtio_queue_notify(VQ_RX) >>

MoPaths == {"virtioblk_transfer", "virtionet_xmit", "virtionet_receive", "virtionet_init"}

\* the values of avail.idx a path starts from
MoIdx0s == {0, 1}

MoProgram(path, idx0) ==
    CASE path = "virtioblk_transfer" -> MoBlkTransfer(idx0)
      [] path = "virtionet_xmit"     -> MoNetXmit(idx0)
      [] path = "virtionet_receive"  -> MoNetReceive(idx0)
      [] path = "virtionet_init"     -> MoNetInit(idx0)

MoIdle ==
    /\ moPath = "none"
    /\ moProg = << >>
    /\ moPc = 1
    /\ moPending = {}
    /\ moVisible = {}
    /\ moIdxState = "none"
    /\ moKicked = "no"

\* the event the driver executes next
MoNextEvent == moProg[moPc]

MoRunning == moPath # "none" /\ moPc <= Len(moProg)

\* the driver enters a submission path
MoCall ==
    /\ moPath = "none"
    /\ \E path \in MoPaths, idx0 \in MoIdx0s :
          /\ moPath' = path
          /\ moProg' = MoProgram(path, idx0)
    /\ UNCHANGED <<moPc, moPending, moVisible, moIdxState, moKicked>>

\* a store is issued; it is not yet visible to the host
MoStore ==
    /\ MoRunning /\ MoNextEvent.op = "st"
    /\ moPending' = moPending \cup {moPc}
    /\ moIdxState' = IF MoNextEvent.loc[2] = "avail.idx" THEN "stored" ELSE moIdxState
    /\ moPc' = moPc + 1
    /\ UNCHANGED <<moPath, moProg, moVisible, moKicked>>

\* a pending store becomes visible; stores to one location stay in order
MoDrain ==
    /\ \E p \in moPending :
          /\ \A o \in moPending : o < p => moProg[o].loc # moProg[p].loc
          /\ moPending' = moPending \ {p}
          /\ moVisible' = moVisible \cup {p}
    /\ UNCHANGED <<moPath, moProg, moPc, moIdxState, moKicked>>

\* sync(): completes once every earlier store is visible
MoBarrier ==
    /\ MoRunning /\ MoNextEvent.op = "mb"
    /\ moPending = {}
    /\ moIdxState' = IF moIdxState = "stored" THEN "fenced" ELSE moIdxState
    /\ moPc' = moPc + 1
    /\ UNCHANGED <<moPath, moProg, moPending, moVisible, moKicked>>

MoLoad ==
    /\ MoRunning /\ MoNextEvent.op = "ld"
    /\ moPc' = moPc + 1
    /\ UNCHANGED <<moPath, moProg, moPending, moVisible, moIdxState, moKicked>>

\* virtio_set_status, virtio_queue_ready: register writes of the transport
MoRegWrite ==
    /\ MoRunning /\ MoNextEvent.op = "reg"
    /\ moPc' = moPc + 1
    /\ UNCHANGED <<moPath, moProg, moPending, moVisible, moIdxState, moKicked>>

\* the notify register is written: the host examines the queue
MoNotify ==
    /\ MoRunning /\ MoNextEvent.op = "notify"
    /\ moKicked' = IF moIdxState = "fenced" THEN "fenced" ELSE "unfenced"
    /\ moPc' = moPc + 1
    /\ UNCHANGED <<moPath, moProg, moPending, moVisible, moIdxState>>

\* the block driver's variables, idle
BlkIdle ==
    /\ blkHost = [features |-> {}, capacity |-> U64(10), blk_size |-> 512, qmax |-> 4]
    /\ blkFeatures = {}
    /\ blkGuest = {}
    /\ blkStatus = 0
    /\ blkLog = <<0>>
    /\ blkVq = virtio_queue_init_vq(0, FALSE)
    /\ blkHdr = [type |-> U64(0), sector |-> U64(0)]
    /\ blkCall = [op |-> "none", ok |-> TRUE, ret |-> 0,
                  notify |-> FALSE, blocknum |-> U64(0), cnt |-> U64(0), type |-> 0,
                  idx0 |-> 0, why |-> ""]
    /\ blkFault = "no"

\* the network driver's variables, idle
NetIdle ==
    /\ vnet = [i \in NetIds |-> NetFresh(NetLegacyDevice)]
    /\ NetGlobalsInit

vars == <<blkVars, netVars, moVars>>

(***************************************************************************)
(* SpecBlk: the block driver on one device.                                *)
(***************************************************************************)
BlkDoInit ==
    /\ \E accept \in BOOLEAN, allocOk \in BOOLEAN : virtioblk_init(accept, allocOk)
    /\ UNCHANGED <<netVars, moVars>>

BlkDoShutdown == virtioblk_shutdown /\ UNCHANGED <<netVars, moVars>>

BlkDoTransfer ==
    /\ \E blocknum \in BlkBlocknums, cnt \in BlkCounts, type \in BlkTypes :
          virtioblk_transfer(blocknum, cnt, type)
    /\ UNCHANGED <<netVars, moVars>>

BlkNext == BlkDoInit \/ BlkDoShutdown \/ BlkDoTransfer

InitBlk == BlkInit /\ NetIdle /\ MoIdle

SpecBlk == InitBlk /\ [][BlkNext]_vars

(***************************************************************************)
(* SpecNet: the network driver on one device (instance 1) with a loopback  *)
(* device.                                                                 *)
(***************************************************************************)
NetDoOpen ==
    /\ \E fail \in NetAllocFailures, accept \in BOOLEAN : virtionet_open(1, fail, accept)
    /\ UNCHANGED <<blkVars, moVars>>

NetDoClose == virtionet_close(1) /\ UNCHANGED <<blkVars, moVars>>

NetDoXmit == (\E buf \in NetPayloads : virtionet_xmit(1, buf)) /\ UNCHANGED <<blkVars, moVars>>

NetDoReceiveCheck == virtionet_receive_check(1) /\ UNCHANGED <<blkVars, moVars>>

NetDoReceive ==
    (\E maxlen \in NetMaxlens : virtionet_receive(1, maxlen)) /\ UNCHANGED <<blkVars, moVars>>

NetHost == HostLoopback(1) /\ UNCHANGED <<blkVars, moVars>>

NetNext ==
    NetDoOpen \/ NetDoClose \/ NetDoXmit \/ NetDoReceiveCheck \/ NetDoReceive \/ NetHost

InitNet == NetInit /\ BlkIdle /\ MoIdle

SpecNet == InitNet /\ [][NetNext]_vars

(***************************************************************************)
(* SpecBlkRange: the block driver with requests at and beyond the end of   *)
(* the disk: a request that ends one block past the capacity, an empty     *)
(* request that starts past it, and one whose end wraps around 2^64.       *)
(***************************************************************************)
BlkRangeBlocknums == {U64(6), U64(11), U64Max}

BlkRangeCounts == {U64(0), U64(2), U64(5)}

BlkRangeTransfer ==
    /\ \E blocknum \in BlkRangeBlocknums, cnt \in BlkRangeCounts, type \in BlkTypes :
          virtioblk_transfer(blocknum, cnt, type)
    /\ UNCHANGED <<netVars, moVars>>

BlkRangeNext == BlkDoInit \/ BlkDoShutdown \/ BlkRangeTransfer

InitBlkRange == BlkInit /\ NetIdle /\ MoIdle

SpecBlkRange == InitBlkRange /\ [][BlkRangeNext]_vars

(***************************************************************************)
(* SpecNet2: two network instances in one process, instance 1 on a legacy  *)
(* device and instance 2 on a legacy or a modern one.  Every allocation    *)
(* succeeds and the devices accept the features; the two instances         *)
(* together transmit at most MaxXmit frames and receive at most as many.      *)
(***************************************************************************)
Net2Payloads == {<<1>>, <<2, 1>>}

Net2Init ==
    /\ \E d \in {NetLegacyDevice, NetModernDevice} :
          vnet = [i \in NetIds |-> NetFresh(IF i = 1 THEN NetLegacyDevice ELSE d)]
    /\ NetGlobalsInit

Net2Open == (\E i \in NetIds : virtionet_open(i, "none", TRUE)) /\ UNCHANGED <<blkVars, moVars>>

Net2Xmit ==
    /\ Len(vnet[1].sent) + Len(vnet[2].sent) < MaxXmit
    /\ \E i \in NetIds, buf \in Net2Payloads : virtionet_xmit(i, buf)
    /\ UNCHANGED <<blkVars, moVars>>

Net2ReceiveCheck ==
    (\E i \in NetIds : virtionet_receive_check(i)) /\ UNCHANGED <<blkVars, moVars>>

Net2Receive ==
    /\ Len(vnet[1].rcvd) + Len(vnet[2].rcvd) < MaxXmit
    /\ \E i \in NetIds : virtionet_receive(i, BUFFER_ENTRY_SIZE)
    /\ UNCHANGED <<blkVars, moVars>>

Net2Host == (\E i \in NetIds : HostLoopback(i)) /\ UNCHANGED <<blkVars, moVars>>

Net2Next == Net2Open \/ Net2Xmit \/ Net2ReceiveCheck \/ Net2Receive \/ Net2Host

InitNet2 == Net2Init /\ BlkIdle /\ MoIdle

SpecNet2 == InitNet2 /\ [][Net2Next]_vars

(***************************************************************************)
(* SpecMO: one submission path, event by event, against the host's view of *)
(* memory.                                                                 *)
(***************************************************************************)
MoDoCall == MoCall /\ UNCHANGED <<blkVars, netVars>>

MoDoStore == MoStore /\ UNCHANGED <<blkVars, netVars>>

MoDoDrain == MoDrain /\ UNCHANGED <<blkVars, netVars>>

MoDoBarrier == MoBarrier /\ UNCHANGED <<blkVars, netVars>>

MoDoLoad == MoLoad /\ UNCHANGED <<blkVars, netVars>>

MoDoRegWrite == MoRegWrite /\ UNCHANGED <<blkVars, netVars>>

MoDoNotify == MoNotify /\ UNCHANGED <<blkVars, netVars>>

MoNext ==
    \/ MoDoCall \/ MoDoStore \/ MoDoDrain \/ MoDoBarrier \/ MoDoLoad \/ MoDoRegWrite
    \/ MoDoNotify

InitMO == BlkIdle /\ NetIdle /\ MoIdle

SpecMO == InitMO /\ [][MoNext]_vars

(***************************************************************************)
(* Spec: either driver.  The two drivers share no state (separate devices, *)
(* separate statics), so a behaviour exercises one of them: the block      *)
(* driver moves only while the network driver has not been used, and the   *)
(* other way round.                                                        *)
(***************************************************************************)
BlkQuiet == BlkIdle

NetQuiet == NetIdle

AnyBlkInit == NetQuiet /\ BlkDoInit

AnyBlkShutdown == NetQuiet /\ BlkDoShutdown

AnyBlkTransfer == NetQuiet /\ BlkDoTransfer

AnyNetOpen == BlkQuiet /\ NetDoOpen

AnyNetClose == BlkQuiet /\ NetDoClose

AnyNetXmit == BlkQuiet /\ NetDoXmit

AnyNetReceiveCheck == BlkQuiet /\ NetDoReceiveCheck

AnyNetReceive == BlkQuiet /\ NetDoReceive

AnyNetHost == BlkQuiet /\ NetHost

Init == InitBlk \/ InitNet

Next ==
    \/ AnyBlkInit \/ AnyBlkShutdown \/ AnyBlkTransfer
    \/ AnyNetOpen \/ AnyNetClose \/ AnyNetXmit \/ AnyNetReceiveCheck \/ AnyNetReceive
    \/ AnyNetHost

Spec == Init /\ [][Next]_vars

(***************************************************************************)
(* Properties.                                                             *)
(***************************************************************************)

\* the TX chains in flight at instance n: published in the available ring and not
\* yet returned in the used ring, as the set of their positions
TxInFlight(n) ==
    { (n.tx.usedIdx + k) % W16 : k \in 0 .. (((n.tx.availIdx - n.tx.usedIdx) % W16) - 1) }

\* the descriptors of the chain published at position p
TxChainDescs(n, p) ==
    LET c == HostChain(n.tx, n.tx.availRing[p % n.tx.size], n.tx.size)
    IN  { c[k] : k \in 1 .. Len(c) }

\* the bytes of the TX pool that the chain published at position p points at
TxChainBytes(n, p) ==
    UNION { LET d == n.tx.desc[id]
            IN  IF d.addr.region = "tx"
                THEN (d.addr.off + 1) .. (d.addr.off + d.len) ELSE {}
            : id \in TxChainDescs(n, p) }

\* C1.  virtionet_xmit never overwrites a TX descriptor or a byte of the TX pool
\* that belongs to a chain in flight: in every step that publishes a frame (the
\* TX avail.idx moves), the two descriptors it fills and the pool bytes it copies
\* the payload to are disjoint from those of every chain in flight before the step.
C1_TxInFlightNotOverwritten ==
    [][ LET n   == vnet[1]
            m   == vnet'[1]
            idx == n.tx.availIdx
            id  == NetTxDescId(idx, n.tx.size)
            off == NetTxBufOffset(idx, n.tx.size)
            len == Len(m.sent[Len(m.sent)])
        IN  (n.open /\ m.open /\ m.tx.availIdx # n.tx.availIdx) =>
                \A p \in TxInFlight(n) :
                    /\ TxChainDescs(n, p) \cap {id, id + 1} = {}
                    /\ TxChainBytes(n, p) \cap ((off + 1) .. (off + len)) = {} ]_vars

\* C4.  Round trip through the loopback device: the k-th frame virtionet_receive
\* returned, when its maxlen was at least the length of the k-th transmitted
\* payload, is that payload, byte for byte.
C4_NetRoundTrip ==
    LET n == vnet[1]
    IN  /\ Len(n.rcvd) <= Len(n.sent)
        /\ \A k \in 1 .. Len(n.rcvd) :
               n.rcvd[k].maxlen >= Len(n.sent[k]) => n.rcvd[k].data = n.sent[k]

\* a frame went out, the device looped it back, and virtionet_receive returned it
C4_Witness ==
    /\ netCall.op = "receive" /\ netCall.ok
    /\ Len(vnet[1].rcvd) = 1
    /\ vnet[1].rcvd[1].data = vnet[1].sent[1]

\* the positions of moProg that store field f of queue q
MoStores(q, f) ==
    { p \in 1 .. Len(moProg) :
        moProg[p].op = "st" /\ moProg[p].loc[1] = q /\ moProg[p].loc[2] = f }

\* C2.  In each submission path (virtioblk_transfer, virtionet_xmit, the re-post of
\* virtionet_receive, the pre-post of virtionet_init), once the host can see the
\* store of avail.idx, it can see every descriptor store and every avail.ring
\* store of that queue that the path made before it.
C2_PublishAfterWrites ==
    \A q \in {VQ_RX, VQ_TX} : \A p \in MoStores(q, "avail.idx") :
        p \in moVisible =>
            \A w \in MoStores(q, "desc") \cup MoStores(q, "avail.ring") :
                w < p => w \in moVisible

\* the host sees the avail.idx of a block request that it has not been notified of
C2_Witness ==
    /\ moPath = "virtioblk_transfer"
    /\ MoStores(0, "avail.idx") \subseteq moVisible
    /\ MoStores(0, "desc") # {}
    /\ moKicked = "no"

\* C3.  In virtioblk_transfer, virtionet_xmit and the re-post of virtionet_receive
\* a full barrier is executed after the store of avail.idx and before the notify.
C3_BarrierBeforeNotify ==
    (moPath \in {"virtioblk_transfer", "virtionet_xmit", "virtionet_receive"}
        /\ moKicked # "no") => moKicked = "fenced"

\* a sequence of status writes in which no value clears a bit written before it,
\* up to the first write of FAILED
StatusMonotone(log) ==
    \A j \in 1 .. Len(log) : \A k \in (j + 1) .. Len(log) :
        (\A m \in 1 .. k : ~HasBits(log[m], VIRTIO_STAT_FAILED)) =>
            HasBits(log[k], log[j])

\* C5.  Between a reset and the next reset or write of FAILED, every status value
\* the drivers write (virtioblk_init, virtionet_open) contains all the status bits
\* written before it.
C5_StatusMonotone ==
    /\ StatusMonotone(blkLog)
    /\ \A i \in NetIds : StatusMonotone(vnet[i].log)

\* a modern block device was initialised: FEATURES_OK, then DRIVER_OK on top of it
C5_Witness ==
    /\ blkCall.op = "init" /\ blkCall.ok
    /\ blkLog = <<0, 1, 3, 11, 15>>

\* C6.  A successful init of a legacy device writes the status values 0, 1, 3, 7
\* and never FEATURES_OK, in virtioblk_init and in virtionet_open.
C6_LegacyTrajectory ==
    /\ (blkCall.op = "init" /\ blkCall.ok /\ VIRTIO_F_VERSION_1 \notin blkHost.features)
           => blkLog = <<0, 1, 3, 7>>
    /\ (netCall.op = "open" /\ netCall.ok
            /\ VIRTIO_F_VERSION_1 \notin vnet[1].host.features)
           => vnet[1].log = <<0, 1, 3, 7>>

\* C7.  Once virtioblk_init has failed (FAILED is set in the status register), a
\* virtioblk_transfer is refused and has no side effect: no descriptor, ring entry
\* or header is written, avail.idx stays and the device is not notified.
C7_TransferAfterFailedInit ==
    [][ (HasBits(blkStatus, VIRTIO_STAT_FAILED) /\ blkCall'.op = "transfer") =>
            /\ ~blkCall'.ok
            /\ ~blkCall'.notify
            /\ UNCHANGED <<blkVq, blkHdr, blkFault>> ]_vars

\* C8.  A recoverable rejection leaves the state as it was: a transfer with
\* start_block + count - 1 > capacity, and an xmit with len > BUFFER_ENTRY_SIZE,
\* write no descriptor, ring entry, header or pool byte, leave avail.idx and the
\* used cursors alone and do not notify.
C8_RejectionLeavesState ==
    [][ /\ (/\ blkCall'.op = "transfer"
            /\ U64Gt(U64Sub(U64Add(blkCall'.blocknum, blkCall'.cnt), U64(1)),
                     blkHost.capacity))
           => /\ ~blkCall'.ok /\ ~blkCall'.notify
              /\ UNCHANGED <<blkVq, blkHdr, blkStatus, blkFault>>
        /\ (netCall'.op = "xmit" /\ netCall'.arg > BUFFER_ENTRY_SIZE)
           => /\ ~netCall'.ok /\ netCall'.notify = {}
              /\ UNCHANGED <<vnet, last_rx_idx, last_tx_idx, net_hdr_size>> ]_vars

\* an out-of-range transfer was rejected on a queue that already carries a request
C8_Witness ==
    /\ blkCall.op = "transfer" /\ ~blkCall.ok /\ blkCall.why = "range"
    /\ blkVq.alloc /\ blkVq.availIdx > 0

\* C9.  An accepted virtioblk_transfer publishes the chain with head
\* id = (avail.idx * 3) mod Q: descriptor id is the header, NEXT -> id + 1, not
\* WRITE; id + 1 the data of count * blk_size bytes, NEXT -> id + 2, WRITE exactly
\* when the operation is READ; id + 2 the status byte, WRITE, no NEXT.
C9_BlkChainLayout ==
    (blkCall.op = "transfer" /\ blkCall.ok /\ blkFault = "no") =>
        LET q  == blkVq.size
            id == (blkCall.idx0 * 3) % q
        IN  /\ blkVq.availRing[blkCall.idx0 % q] = id
            /\ blkVq.desc[id] =
                   Desc("blkhdr_pa", U64(SIZEOF_VIRTIO_BLK_REQ), VRING_DESC_F_NEXT, id + 1)
            /\ blkVq.desc[id + 1] =
                   Desc("buf", U64MulSmall(blkCall.cnt, blkHost.blk_size),
                        IF blkCall.type = VIRTIO_BLK_T_IN
                        THEN BitOr(VRING_DESC_F_NEXT, VRING_DESC_F_WRITE)
                        ELSE VRING_DESC_F_NEXT,
                        id + 2)
            /\ blkVq.desc[id + 2].addr = "status_pa"
            /\ blkVq.desc[id + 2].len = U64(1)
            /\ blkVq.desc[id + 2].flags = VRING_DESC_F_WRITE

\* C10.  The header of an accepted virtioblk_transfer, as the device reads it, has
\* type = op and sector = start_block * blk_size / 512 as a 64-bit value.
C10_BlkHeader ==
    (blkCall.op = "transfer" /\ blkCall.ok /\ blkFault = "no") =>
        LET modernDev == VIRTIO_F_VERSION_1 \in blkGuest
        IN  /\ dev_read32(modernDev, blkHdr.type) = U64(blkCall.type)
            /\ dev_read64(modernDev, blkHdr.sector) =
                   U64DivSmall(U64MulSmall(blkCall.blocknum, blkHost.blk_size), 512)

\* BLK_SIZE was negotiated: the host offers it and the driver has accepted it
BlkSizeNegotiated == VIRTIO_BLK_F_BLK_SIZE \in (blkHost.features \cap blkGuest)

\* C11.  virtioblk_init returns the blk_size of the configuration region only when
\* BLK_SIZE was negotiated and 512 otherwise, and does not succeed when the
\* blk_size it read is not a multiple of 512.
C11_InitBlkSize ==
    (blkCall.op = "init" /\ blkCall.ok) =>
        /\ blkCall.ret = (IF BlkSizeNegotiated THEN blkHost.blk_size ELSE 512)
        /\ blkCall.ret % 512 = 0

\* C12.  After every successful virtionet_open, a re-open after transmits and a
\* close included, the TX queue has avail.flags = NO_INTERRUPT and avail.idx = 0,
\* and the TX used cursor last_tx_idx is 0.
C12_TxStateAfterOpen ==
    (netCall.op = "open" /\ netCall.ok) =>
        LET n == vnet[netCall.inst]
        IN  /\ virtio_modern16_to_cpu(n.features, n.tx.availFlags) = VRING_AVAIL_F_NO_INTERRUPT
            /\ virtio_modern16_to_cpu(n.features, n.tx.availIdx) = 0
            /\ last_tx_idx = 0

\* C13.  A virtionet_xmit of len <= BUFFER_ENTRY_SIZE bytes, with idx the TX
\* avail.idx before the call and id = (2 * idx) mod Q, returns len; descriptor id
\* is a zeroed net header of the negotiated size (10 legacy, 12 modern) with
\* NEXT -> id + 1; descriptor id + 1 is a slot inside the TX pool holding a copy of
\* the payload, of length len, without flags; avail.ring[idx mod Q] = id;
\* avail.idx advances by 1 modulo 2^16; and the TX queue is notified once.
C13_XmitLayout ==
    [][ (netCall'.op = "xmit" /\ netCall'.arg <= BUFFER_ENTRY_SIZE) =>
          LET i   == netCall'.inst
              n   == vnet[i]
              m   == vnet'[i]
              Q   == n.tx.size
              idx == virtio_modern16_to_cpu(n.features, n.tx.availIdx)
              id  == (2 * idx) % Q
              len == netCall'.arg
              hd  == m.tx.desc[id]
              dd  == m.tx.desc[id + 1]
          IN  /\ netCall'.ok /\ netCall'.ret = len
              /\ hd.len = (IF VIRTIO_F_VERSION_1 \in n.features THEN 12 ELSE 10)
              /\ HostReadDesc(m, hd) = Zeros(hd.len)
              /\ hd.flags = VRING_DESC_F_NEXT /\ hd.next = id + 1
              /\ dd.addr.region = "tx"
              /\ dd.addr.off + len <= Len(m.txPool)
              /\ dd.len = len /\ dd.flags = 0
              /\ HostReadDesc(m, dd) = m.sent[Len(m.sent)]
              /\ virtio_modern16_to_cpu(n.features, m.tx.availRing[idx % Q]) = id
              /\ virtio_modern16_to_cpu(n.features, m.tx.availIdx) = (idx + 1) % W16
              /\ netCall'.notify = {VQ_TX} ]_vars

\* the smaller of two numbers
Min(a, b) == IF a < b THEN a ELSE b

\* C14.  virtionet_receive returns 0 and changes nothing when used.idx equals the
\* RX cursor; otherwise, the used entry at cursor mod Q having used.len >= hdr_size,
\* it copies and returns exactly min(used.len - hdr_size, maxlen) bytes and
\* advances the RX cursor by 1, re-posting the chain, also when the frame is
\* truncated to maxlen.
C14_ReceiveLength ==
    [][ netCall'.op = "receive" =>
          LET i      == netCall'.inst
              n      == vnet[i]
              m      == vnet'[i]
              used   == virtio_modern16_to_cpu(n.features, n.rx.usedIdx)
              e      == n.rx.usedRing[last_rx_idx % n.rx.size]
              hdr    == IF VIRTIO_F_VERSION_1 \in n.features THEN 12 ELSE 10
              maxlen == netCall'.arg
          IN  IF used = last_rx_idx
              THEN netCall'.ret = 0 /\ UNCHANGED <<vnet, last_rx_idx, last_tx_idx>>
              ELSE e.len >= hdr =>
                     /\ netCall'.ret = Min(e.len - hdr, maxlen)
                     /\ Len(m.rcvd[Len(m.rcvd)].data) = Min(e.len - hdr, maxlen)
                     /\ last_rx_idx' = (last_rx_idx + 1) % W16
                     /\ m.rx.availIdx = (n.rx.availIdx + 1) % W16
                     /\ netCall'.notify = {VQ_RX} ]_vars

\* the used entry a virtionet_receive step of instance i consumes, and the slot
\* of the available ring it writes
RxConsumed(i) == vnet[i].rx.usedRing[last_rx_idx % vnet[i].rx.size]

RxRepostSlot(i) ==
    virtio_modern16_to_cpu(vnet[i].features, vnet[i].rx.availIdx) % vnet[i].rx.size

\* C15 as stated.  When virtionet_receive consumes a used entry with id field
\* id_raw, it writes id_raw - 1 to avail.ring[avail.idx mod Q], then increments
\* the RX avail.idx and notifies the RX queue.
C15_RepostIdRawMinus1 ==
    [][ (netCall'.op = "receive" /\ netCall'.ok) =>
          LET i == netCall'.inst
          IN  /\ vnet'[i].rx.availRing[RxRepostSlot(i)] = (RxConsumed(i).id - 1) % W16
              /\ vnet'[i].rx.availIdx = (vnet[i].rx.availIdx + 1) % W16
              /\ netCall'.notify = {VQ_RX} ]_vars

\* C15 amended.  The value written to avail.ring[avail.idx mod Q] is
\* ((id_raw + 1) mod Q) - 1 as a 16-bit value, which is id_raw itself, the header
\* descriptor that heads the chain, whenever id_raw < Q - 1; then the RX avail.idx
\* is incremented by 1 and the RX queue is notified.
C15_RepostHead ==
    [][ (netCall'.op = "receive" /\ netCall'.ok) =>
          LET i      == netCall'.inst
              Q      == vnet[i].rx.size
              id_raw == RxConsumed(i).id
              posted == vnet'[i].rx.availRing[RxRepostSlot(i)]
          IN  /\ posted = (((id_raw + 1) % Q) - 1) % W16
              /\ id_raw < Q - 1 => posted = id_raw
              /\ vnet'[i].rx.availIdx = (vnet[i].rx.availIdx + 1) % W16
              /\ netCall'.notify = {VQ_RX} ]_vars

\* a receive has just re-posted the chain headed by descriptor 2
C15_Witness ==
    /\ netCall.op = "receive" /\ netCall.ok
    /\ LET n == vnet[netCall.inst]
       IN  /\ n.rx.usedRing[(last_rx_idx - 1) % n.rx.size].id = 2
           /\ n.rx.availRing[(n.rx.availIdx - 1) % n.rx.size] = 2

\* the buffer pools virtionet_init allocates (lines 407 - 420)
NetPools == {"rxpool", "txpool"}

\* C16.  virtionet_close on a running instance quiesces and resets the device and
\* returns both the RX and the TX buffer pool to the allocator: after the step
\* the instance holds no pool and no pool it held has been lost without a free.
C16_CloseFreesPools ==
    [][ (netCall'.op = "close" /\ netCall'.ok) =>
          LET i == netCall'.inst
          IN  /\ vnet[i].running = 1
              /\ vnet'[i].status = 0
              /\ vnet'[i].live \cap NetPools = {}
              /\ (vnet'[i].lost \ vnet[i].lost) \cap NetPools = {} ]_vars

\* used.idx - last_rx_idx of the RX queue of instance i, as an unsigned 16-bit
\* difference
RxBacklog(i) ==
    (virtio_modern16_to_cpu(vnet[i].features, vnet[i].rx.usedIdx) - last_rx_idx) % W16

\* C17.  In every state after virtionet_open, whatever the interleaving of host
\* completions with virtionet_receive and virtionet_receive_check calls, the RX
\* queue of an open instance satisfies 0 <= (used.idx - last_rx_idx) mod 2^16 <= Q.
C17_RxCursorWithinQueue ==
    \A i \in NetIds :
        vnet[i].open => (0 <= RxBacklog(i) /\ RxBacklog(i) <= vnet[i].rx.size)

\* Following the NEXT links of table from descriptor id, within fuel steps, stays
\* on ids in [0, q) and ends at a descriptor without NEXT.
RECURSIVE ChainInside(_, _, _, _)
ChainInside(table, q, id, fuel) ==
    /\ id \in 0 .. (q - 1)
    /\ IF HasBits(table[id].flags, VRING_DESC_F_NEXT)
       THEN fuel > 1 /\ ChainInside(table, q, table[id].next, fuel - 1)
       ELSE TRUE

\* C18.  Each chain published by virtioblk_transfer (3 descriptors), virtionet_xmit
\* (2 descriptors) or the RX pre-post of virtionet_init (2 descriptors) uses only
\* descriptor ids in [0, Q) and its NEXT links end, inside the descriptor table,
\* at a descriptor without NEXT.
C18_ChainsInsideTable ==
    /\ (blkCall.op = "transfer" /\ blkCall.ok /\ blkFault = "no") =>
           ChainInside(blkVq.desc, blkVq.size,
                       blkVq.availRing[blkCall.idx0 % blkVq.size], 3)
    /\ (netCall.op = "xmit" /\ netCall.ok) =>
           LET q == vnet[netCall.inst].tx
               idx == virtio_modern16_to_cpu(vnet[netCall.inst].features, q.availIdx)
           IN  ChainInside(q.desc, q.size, q.availRing[(idx - 1) % q.size], 2)
    /\ (netCall.op = "open" /\ netCall.ok) =>
           LET q == vnet[netCall.inst].rx
           IN  \A k \in 0 .. ((q.size \div 2) - 1) :
                   ChainInside(q.desc, q.size, q.availRing[k], 2)

\* what virtionet_receive_check returns for instance j with the cursor at c
\* (lines 564 - 581): the raw length of the pending used entry, or 0
RxCheckResult(j, c) ==
    IF NetRxPending(vnet[j], c)
    THEN vnet[j].rx.usedRing[c % vnet[j].rx.size].len
    ELSE 0

\* C19.  With two instances open, a virtionet_open, virtionet_write or
\* virtionet_read on one instance leaves the RX cursor of the other unchanged, so
\* what virtionet_receive_check returns for the other depends only on its own
\* queue.
C19_RxCursorPerInstance ==
    [][ \A i, j \in NetIds :
          ( /\ i # j
            /\ netCall'.inst = i
            /\ netCall'.op \in {"open", "xmit", "receive"}
            /\ vnet[j].open
            /\ vnet'[j] = vnet[j] ) =>
              /\ last_rx_idx' = last_rx_idx
              /\ RxCheckResult(j, last_rx_idx') = RxCheckResult(j, last_rx_idx) ]_vars

\* C20.  Every accepted virtioblk_transfer lies within the disk: start_block + count
\* does not overflow 64 bits and start_block + count <= capacity, so no accepted
\* request addresses a block index >= capacity.
C20_AcceptedWithinDisk ==
    (blkCall.op = "transfer" /\ blkCall.ok /\ blkFault = "no") =>
        LET end == U64Add(blkCall.blocknum, blkCall.cnt)
        IN  /\ ~U64Gt(blkCall.blocknum, end)
            /\ ~U64Gt(end, blkHost.capacity)

\* the block size virtioblk_init returns for the device (lines 67 - 74)
BlkInitReturned == BlkInitBlkSize(blkHost.features, blkHost.blk_size)

\* C22.  The block size an accepted virtioblk_transfer uses for the sector of the
\* header and for the length of the data descriptor is the one virtioblk_init
\* returned for the device, which is 512 when the host does not offer BLK_SIZE.
C22_TransferBlkSizeAsInit ==
    (blkCall.op = "transfer" /\ blkCall.ok /\ blkFault = "no") =>
        LET id == BlkDescId(blkCall.idx0 % blkVq.size, blkVq.size)
        IN  /\ blkHdr = fill_blk_hdr(blkFeatures # {}, blkCall.type, 1,
                                     BlkSector(blkCall.blocknum, BlkInitReturned))
            /\ blkVq.desc[id + 1].len = BlkDataLen(blkCall.cnt, BlkInitReturned)
            /\ (VIRTIO_BLK_F_BLK_SIZE \notin blkHost.features
                    => BlkInitReturned = DEFAULT_SECTOR_SIZE)

\* the heads of the chains virtionet_init pre-posts on a queue of size q
\* (line 426: id = i * 2)
RxHeads(q) == {2 * j : j \in 0 .. ((q \div 2) - 1)}

\* the RX chains instance i has made available and the host has not taken yet,
\* as positions of the available ring
RxAvailCount(i) ==
    (virtio_modern16_to_cpu(vnet[i].features, vnet[i].rx.availIdx) - vnet[i].hostRx) % W16

RxAvailEntry(i, k) ==
    virtio_modern16_to_cpu(vnet[i].features,
        vnet[i].rx.availRing[(vnet[i].hostRx + k) % vnet[i].rx.size])

\* how many times chain h is available to the host
RxTimesAvailable(i, h) ==
    Cardinality({k \in 0 .. (RxAvailCount(i) - 1) : RxAvailEntry(i, k) = h})

\* how many times chain h is completed and not yet consumed by the driver
RxTimesPending(i, h) ==
    Cardinality({k \in 0 .. (RxBacklog(i) - 1) :
                    vnet[i].rx.usedRing[(last_rx_idx + k) % vnet[i].rx.size].id = h})

\* descriptors h and h + 1 hold the layout of lines 428 - 433
RxChainAsPosted(q, h) ==
    /\ q.desc[h].flags = BitOr(VRING_DESC_F_NEXT, VRING_DESC_F_WRITE)
    /\ q.desc[h].next = h + 1
    /\ q.desc[h].addr.region = "rx"
    /\ q.desc[h + 1].addr = Addr("rx", q.desc[h].addr.off + q.desc[h].len)
    /\ q.desc[h + 1].len = BUFFER_ENTRY_SIZE
    /\ q.desc[h + 1].flags = VRING_DESC_F_WRITE

\* C21.  RX chain conservation: for an open instance, whatever the sequence of
\* host completions and virtionet_receive calls, each of the Q/2 pre-posted RX
\* chains (heads 2i) is in exactly one place, available to the host or completed
\* and pending in the used ring; every id in the available ring is such a head,
\* and its descriptors still hold the pre-posted header/data layout.
C21_RxChainConservation ==
    \A i \in NetIds :
        vnet[i].open =>
            LET q == vnet[i].rx
            IN  /\ RxAvailCount(i) <= q.size
                /\ RxBacklog(i) <= q.size
                /\ \A k \in 0 .. (RxAvailCount(i) - 1) : RxAvailEntry(i, k) \in RxHeads(q.size)
                /\ \A h \in RxHeads(q.size) :
                       /\ RxTimesAvailable(i, h) + RxTimesPending(i, h) = 1
                       /\ RxChainAsPosted(q, h)

=============================================================================
